---- MODULE Spec2Model ----
(***************************************************************************)
(* A model of the emergence pattern detection framework:                   *)
(*   src/src/emergence_detector.py             EmergencePatternDetector    *)
(*   src/src/tool_integrator.py                IntegratedAnalyzer          *)
(*   src/src/emergence_detector_integrated.py  IntegratedEmergenceDetector *)
(*                                                                         *)
(* Text is a sequence of one-character strings, so that str.lower(),       *)
(* str.split(), str.split('.'), str.strip() and the substring test `in`    *)
(* are computed character by character as Python computes them.            *)
(*                                                                         *)
(* Python floats are modelled by exact rationals <<n, d>> in lowest terms  *)
(* (d > 0).  The resonance strength 1 / (1 + std/mean) is irrational in    *)
(* general; it is kept exactly as the rational q = (std/mean)^2, the value *)
(* being 1 / (1 + sqrt(q)).  IEEE-754 rounding is not modelled.            *)
(***************************************************************************)
EXTENDS Integers, Sequences, FiniteSets, TLC

(***************************************************************************)
(* Exact rational arithmetic.                                              *)
(***************************************************************************)
Abs(x) == IF x < 0 THEN -x ELSE x

RECURSIVE Gcd(_, _)
Gcd(a, b) == IF b = 0 THEN a ELSE Gcd(b, a % b)

Rat(n, d) ==
    LET g == Gcd(Abs(n), Abs(d))
        s == IF d < 0 THEN -1 ELSE 1
    IN  <<(s * n) \div g, (s * d) \div g>>

RLt(x, y) == x[1] * y[2] < y[1] * x[2]
RLe(x, y) == x[1] * y[2] <= y[1] * x[2]
RGt(x, y) == RLt(y, x)
RAdd(x, y) == Rat(x[1] * y[2] + y[1] * x[2], x[2] * y[2])
RSub(x, y) == Rat(x[1] * y[2] - y[1] * x[2], x[2] * y[2])
RMul(x, y) == Rat(x[1] * y[1], x[2] * y[2])
RDivInt(x, k) == Rat(x[1], x[2] * k)
RAbs(x) == <<Abs(x[1]), x[2]>>
RMin(x, y) == IF RLt(y, x) THEN y ELSE x

RECURSIVE RSum(_)
RSum(xs) == IF xs = <<>> THEN Rat(0, 1) ELSE RAdd(xs[1], RSum(Tail(xs)))

RECURSIVE SumSeq(_)
SumSeq(xs) == IF xs = <<>> THEN 0 ELSE xs[1] + SumSeq(Tail(xs))

(***************************************************************************)
(* Python string operations on sequences of characters.                    *)
(***************************************************************************)
Whitespace == {" ", "\t", "\n"}

UpperCase ==
    <<"A", "B", "C", "D", "E", "F", "G", "H", "I", "J", "K", "L", "M",
       "N", "O", "P", "Q", "R", "S", "T", "U", "V", "W", "X", "Y", "Z">>
LowerCase ==
    <<"a", "b", "c", "d", "e", "f", "g", "h", "i", "j", "k", "l", "m",
       "n", "o", "p", "q", "r", "s", "t", "u", "v", "w", "x", "y", "z">>

LowerChar(c) ==
    IF \E i \in 1..Len(UpperCase) : UpperCase[i] = c
    THEN LowerCase[CHOOSE i \in 1..Len(UpperCase) : UpperCase[i] = c]
    ELSE c

\* str.lower()
Lower(s) == [i \in 1..Len(s) |-> LowerChar(s[i])]

\* the k-th smallest element of a finite set of integers
Nth(S, k) == CHOOSE i \in S : Cardinality({j \in S : j < i}) = k - 1

\* str.split(): split on runs of whitespace, no empty strings in the result.
\* A word starts at a non-whitespace character that is first or follows
\* whitespace, and runs up to the next whitespace or the end.
WordStarts(s) ==
    {i \in 1..Len(s) : s[i] \notin Whitespace /\ (i = 1 \/ s[i - 1] \in Whitespace)}

WordEnd(s, i) ==
    CHOOSE j \in i..Len(s) :
        /\ \A k \in i..j : s[k] \notin Whitespace
        /\ (j = Len(s) \/ s[j + 1] \in Whitespace)

Split(s) ==
    LET starts == WordStarts(s)
    IN  [k \in 1..Cardinality(starts) |->
            LET i == Nth(starts, k) IN SubSeq(s, i, WordEnd(s, i))]

\* str.split(sep) for a one-character separator: empty strings are kept,
\* so n separators give n + 1 pieces
SplitSep(s, sep) ==
    LET seps == {i \in 1..Len(s) : s[i] = sep}
        n    == Cardinality(seps)
        cut  == [k \in 0..(n + 1) |->
                    IF k = 0 THEN 0
                    ELSE IF k = n + 1 THEN Len(s) + 1
                    ELSE Nth(seps, k)]
    IN  [k \in 1..(n + 1) |-> SubSeq(s, cut[k - 1] + 1, cut[k] - 1)]

\* bool(s.strip()): some character of s is not whitespace
StripNonEmpty(s) == \E i \in 1..Len(s) : s[i] \notin Whitespace

\* the substring test `kw in s`
Contains(s, kw) ==
    \E i \in 0..(Len(s) - Len(kw)) :
        \A j \in 1..Len(kw) : s[i + j] = kw[j]

\* set(text.lower().split())
TokenSet(text) ==
    LET ws == Split(Lower(text)) IN {ws[i] : i \in 1..Len(ws)}

\* the concatenation of a sequence of pieces of text
RECURSIVE Flatten(_)
Flatten(pieces) ==
    IF pieces = <<>> THEN <<>> ELSE pieces[1] \o Flatten(Tail(pieces))

\* every text made of at most n pieces of the alphabet
TextsOver(alphabet, n) ==
    {Flatten(ps) : ps \in UNION {[1..k -> alphabet] : k \in 0..n}}

(***************************************************************************)
(* EmergencePatternDetector.__init__: thresholds and keyword lists.        *)
(***************************************************************************)
measurement_criteria ==
    [boundary_transformation    |-> Rat(7, 10),
     coherence_delta            |-> Rat(15, 100),
     resonance_threshold        |-> Rat(8, 10),
     phase_transition_indicator |-> Rat(175, 100)]

Marker4577 == <<"<", "4", "5", "7", "7", ">">>

AbstractWords ==
    { <<"a","b","s","t","r","a","c","t">>,
      <<"c","o","n","c","e","p","t">>,
      <<"t","h","e","o","r","y">> }

FutureWords ==
    { <<"w","i","l","l">>,
      <<"f","u","t","u","r","e">>,
      <<"w","o","u","l","d">> }

(***************************************************************************)
(* Resonance strength: either the float 0.0 or 1 / (1 + sqrt(q)).          *)
(***************************************************************************)
ZeroStrength == [kind |-> "zero"]
InvStrength(q) == [kind |-> "inv1psqrt", q |-> q]

\* strength > t, for a rational 0 < t < 1:  sqrt(q) < (1 - t) / t
StrengthGt(s, t) ==
    /\ s.kind = "inv1psqrt"
    /\ LET r == Rat(t[2] - t[1], t[1]) IN RLt(s.q, RMul(r, r))

\* 0 < strength
StrengthPositive(s) == s.kind = "inv1psqrt"

\* strength <= 1:  sqrt(q) >= 0
StrengthLeOne(s) == s.kind = "zero" \/ RLe(Rat(0, 1), s.q)

(***************************************************************************)
(* The four metrics and the pattern signature.                             *)
(***************************************************************************)
\* a variant that takes the set difference the wrong way round
Mutant_measure_boundary_transformation(prompt, response) ==
    LET prompt_tokens     == TokenSet(prompt)
        response_tokens   == TokenSet(response)
        new_information   == Cardinality(prompt_tokens \ response_tokens)
        total_information == Cardinality(response_tokens)
        flux              == Rat(new_information, total_information)
    IN  IF total_information = 0
        THEN [score |-> Rat(0, 1), flux |-> Rat(0, 1), type |-> "null"]
        ELSE [score |-> flux,
              flux  |-> new_information,
              type  |-> IF RLt(flux, Rat(3, 10)) THEN "continuous"
                        ELSE IF RLt(flux, Rat(7, 10)) THEN "transitional"
                        ELSE "transformational",
              tokens_added |-> new_information,
              tokens_total |-> total_information]

_measure_boundary_transformation(prompt, response) ==
    LET prompt_tokens     == TokenSet(prompt)
        response_tokens   == TokenSet(response)
        new_information   == Cardinality(response_tokens \ prompt_tokens)
        total_information == Cardinality(response_tokens)
        flux              == Rat(new_information, total_information)
    IN  IF total_information = 0
        THEN [score |-> Rat(0, 1), flux |-> Rat(0, 1), type |-> "null"]
        ELSE [score |-> flux,
              flux  |-> new_information,
              type  |-> IF RLt(flux, Rat(3, 10)) THEN "continuous"
                        ELSE IF RLt(flux, Rat(7, 10)) THEN "transitional"
                        ELSE "transformational",
              tokens_added |-> new_information,
              tokens_total |-> total_information]

\* a variant whose default for an empty prompt is 0.0
MutantCoherenceValue(prompt, response) ==
    LET prompt_concepts   == TokenSet(prompt)
        response_concepts == TokenSet(response)
    IN  IF prompt_concepts = {}
        THEN Rat(0, 1)
        ELSE Rat(Cardinality(prompt_concepts \cap response_concepts),
                 Cardinality(prompt_concepts))

\* the coherence value alone (lines 161-168)
CoherenceValue(prompt, response) ==
    LET prompt_concepts   == TokenSet(prompt)
        response_concepts == TokenSet(response)
    IN  IF prompt_concepts = {}
        THEN Rat(1, 2)
        ELSE Rat(Cardinality(prompt_concepts \cap response_concepts),
                 Cardinality(prompt_concepts))

\* a variant that reads the first observation instead of the last
MutantPrevCoherence(history) ==
    history[1].measurements.coherence.coherence

\* the coherence of the observation the delta is taken against (line 172)
PrevCoherence(history) ==
    history[Len(history)].measurements.coherence.coherence

\* a variant that takes 0.0 for the previous coherence of an empty history
MutantCoherenceDelta(history, coherence) ==
    IF history # <<>>
    THEN RAbs(RSub(coherence, PrevCoherence(history)))
    ELSE RAbs(RSub(coherence, Rat(0, 1)))

\* the delta from the previous observation (lines 170-175)
CoherenceDelta(history, coherence) ==
    IF history # <<>>
    THEN RAbs(RSub(coherence, PrevCoherence(history)))
    ELSE Rat(0, 1)

\* lines 170-181, given the coherence value of lines 161-168
CoherenceLandscape(history, coherence) ==
    LET delta     == CoherenceDelta(history, coherence)
    IN  [coherence |-> coherence,
         delta     |-> delta,
         landscape_stability |->
             IF RLt(delta, Rat(1, 10)) THEN "stable" ELSE "shifting"]

_map_coherence_landscape(history, prompt, response) ==
    CoherenceLandscape(history, CoherenceValue(prompt, response))

\* the guard of line 191: fewer than two pieces after split('.')
TooFewSentences(sentences) == Len(sentences) < 2

_detect_resonance_patterns(response) ==
    LET sentences == SplitSep(response, ".")
        kept      == SelectSeq(sentences, StripNonEmpty)
        lengths   == [i \in 1..Len(kept) |-> Len(Split(kept[i]))]
        n         == Len(lengths)
        total     == SumSeq(lengths)
        squares   == SumSeq([i \in 1..n |-> lengths[i] * lengths[i]])
        \* mean = total / n,  std^2 = (n * squares - total^2) / n^2
        mean_length == Rat(total, n)
        std_squared == Rat(n * squares - total * total, n * n)
        strength  == IF total > 0
                     THEN InvStrength(Rat(n * squares - total * total,
                                          total * total))
                     ELSE ZeroStrength
        none      == [strength |-> ZeroStrength, frequency |-> Rat(0, 1),
                      type |-> "none"]
    IN  IF TooFewSentences(sentences) THEN none
        ELSE IF lengths = <<>> THEN none
        ELSE [strength  |-> strength,
              frequency |-> mean_length,
              type      |-> IF StrengthGt(strength, Rat(8, 10)) THEN "harmonic"
                            ELSE IF StrengthGt(strength, Rat(5, 10)) THEN "partial"
                            ELSE "chaotic",
              variance  |-> [sqrt_of |-> std_squared]]

_analyze_phase_space(boundary_score, coherence) ==
    LET order_parameter == RMul(RMul(boundary_score, coherence), Rat(25, 10))
        critical_point  == measurement_criteria.phase_transition_indicator
        distance_to_critical == RAbs(RSub(order_parameter, critical_point))
    IN  [order_parameter      |-> order_parameter,
         critical_point       |-> critical_point,
         distance_to_critical |-> distance_to_critical,
         near_critical        |-> RLt(distance_to_critical, Rat(2, 10)),
         phase |-> IF RGt(order_parameter, critical_point)
                   THEN "emergent" ELSE "baseline"]

\* the two keyword checks of lines 248-256
AbstractFeature(response) ==
    IF \E w \in AbstractWords : Contains(Lower(response), w) THEN "A" ELSE "C"

FutureFeature(response) ==
    IF \E w \in FutureWords : Contains(Lower(response), w) THEN "F" ELSE "P"

\* a variant that puts code AP in the first bucket
MutantSignatureTable(signature) ==
    IF signature \in {<<"A", "F">>, <<"A", "P">>} THEN "AAFC"
    ELSE IF signature \in {<<"C", "F">>, <<"C", "P">>} THEN "CCDR"
    ELSE "ABFC"

\* the table of lines 261-266
SignatureTable(signature) ==
    IF signature \in {<<"A", "F">>, <<"A", "A">>} THEN "AAFC"
    ELSE IF signature \in {<<"C", "F">>, <<"C", "P">>} THEN "CCDR"
    ELSE "ABFC"

_generate_pattern_signature(response) ==
    SignatureTable(<<AbstractFeature(response), FutureFeature(response)>>)

(***************************************************************************)
(* State.                                                                  *)
(***************************************************************************)
VARIABLES
    \* EmergencePatternDetector
    pattern_observations,   \* self.pattern_observations
    resonance_events,       \* self.resonance_events
    now,                    \* the clock read by datetime.now()
    returned,               \* the last call and the value it returned
    raised,                 \* the exception the last call raised, or "none"
    \* one call of a metric on a fresh detector
    call,
    \* tool_integrator and IntegratedEmergenceDetector
    stage,                  \* "unloaded", "imported" or "ready"
    available,              \* BIND_AVAILABLE ... TRUST_AVAILABLE
    tools_status,           \* tools_status
    tide,                   \* analyzer.tide
    overflow,               \* analyzer.overflow
    observations,           \* self.observations
    emergence_events,       \* self.emergence_events
    \* callers sharing one EmergencePatternDetector
    pending,                \* each caller's position in its call and its locals
    basis,                  \* for each observation, the length of the history
                            \* its call read the previous observation from
    serialized              \* whether each call runs as one step

detector_vars == <<pattern_observations, resonance_events, now, returned,
                   raised>>
integrated_vars == <<stage, available, tools_status, tide, overflow,
                     observations, emergence_events>>
concurrent_vars == <<pending, basis, serialized>>
vars == <<pattern_observations, resonance_events, now, returned, raised, call,
          stage, available, tools_status, tide, overflow, observations,
          emergence_events, pending, basis, serialized>>

None == [op |-> "none"]
NoFile == [file |-> "absent"]
Idle == [fn |-> "idle"]

(***************************************************************************)
(* Bounds and the inputs the calls are drawn from.                         *)
(***************************************************************************)
MaxObservations == 3

\* pieces of text
cA == <<"a">>
cB == <<"b">>
cC == <<"c">>
cD == <<"d">>
cUpperB == <<"B">>
cSpace == <<" ">>
cDot == <<".">>
cTheory == <<"T","h","e","o","r","y">>
cWould == <<"w","o","u","l","d">>
cWill == <<"w","i","l","l">>
cConcept == <<"c","o","n","c","e","p","t">>

\* the (prompt, response) pairs a conversation is made of
Conversation ==
    { \* "" / ""
      <<<<>>, <<>>>>,
      \* "a" / "Theory"
      <<cA, cTheory>>,
      \* "a" / "would."
      <<cA, cWould \o cDot>>,
      \* "a" / "a b c d."
      <<cA, Flatten(<<cA, cSpace, cB, cSpace, cC, cSpace, cD, cDot>>)>>,
      \* "a" / "a b c."
      <<cA, Flatten(<<cA, cSpace, cB, cSpace, cC, cDot>>)>>,
      \* "a B" / "a. will concept <4577>"
      <<Flatten(<<cA, cSpace, cUpperB>>),
        Flatten(<<cA, cDot, cSpace, cWill, cSpace, cConcept, cSpace,
                  Marker4577>>)>>,
      \* "a B" / "a b. a"
      <<Flatten(<<cA, cSpace, cUpperB>>),
        Flatten(<<cA, cSpace, cB, cDot, cSpace, cA>>)>> }

\* conversation_turn is caller-supplied and not validated
TurnIndices == {1, 2}

(***************************************************************************)
(* The history-independent measurements of each pair of the conversation,  *)
(* evaluated once per pair.                                                *)
(***************************************************************************)
MeasuredBoundary ==
    [t \in Conversation |-> _measure_boundary_transformation(t[1], t[2])]
MeasuredCoherence ==
    [t \in Conversation |-> CoherenceValue(t[1], t[2])]
MeasuredResonance ==
    [t \in Conversation |-> _detect_resonance_patterns(t[2])]
MeasuredSignature ==
    [t \in Conversation |-> _generate_pattern_signature(t[2])]
MeasuredMarker ==
    [t \in Conversation |-> Contains(t[2], Marker4577)]

(***************************************************************************)
(* analyze_emergence_patterns.                                             *)
(***************************************************************************)
\* datetime.isoformat()
IsoFormat(t) == [iso |-> t]

\* a variant that needs more than three indicators
MutantEmergenceDetected(emergence_indicators) ==
    Cardinality({k \in DOMAIN emergence_indicators :
                    emergence_indicators[k]}) > 3

\* sum(emergence_indicators.values()) >= 3   (line 94)
EmergenceDetected(emergence_indicators) ==
    Cardinality({k \in DOMAIN emergence_indicators :
                    emergence_indicators[k]}) >= 3

\* the report built by lines 68-110
AnalysisReport(history, prompt, response, conversation_turn, timestamp) ==
    LET turn              == <<prompt, response>>
        boundary_metrics  == MeasuredBoundary[turn]
        coherence_metrics == CoherenceLandscape(history, MeasuredCoherence[turn])
        resonance_metrics == MeasuredResonance[turn]
        phase_metrics     == _analyze_phase_space(boundary_metrics.score,
                                                  coherence_metrics.coherence)
        emergence_indicators ==
            [boundary_transformation |->
                 RGt(boundary_metrics.score,
                     measurement_criteria.boundary_transformation),
             coherence_shift |->
                 RGt(coherence_metrics.delta,
                     measurement_criteria.coherence_delta),
             resonance_detected |->
                 StrengthGt(resonance_metrics.strength,
                            measurement_criteria.resonance_threshold),
             phase_transition |-> phase_metrics.near_critical]
    IN  [timestamp         |-> IsoFormat(timestamp),
         conversation_turn |-> conversation_turn,
         measurements      |-> [boundary  |-> boundary_metrics,
                                coherence |-> coherence_metrics,
                                resonance |-> resonance_metrics,
                                phase     |-> phase_metrics],
         emergence_indicators       |-> emergence_indicators,
         emergence_pattern_detected |-> EmergenceDetected(emergence_indicators),
         pattern_signature          |-> MeasuredSignature[turn],
         contains_4577_marker       |-> MeasuredMarker[turn]]

\* the event built by _log_emergence_event (lines 270-280)
EmergenceEvent(analysis) ==
    [timestamp |-> analysis.timestamp,
     turn      |-> analysis.conversation_turn,
     pattern   |-> analysis.pattern_signature,
     measurements |->
         [boundary        |-> analysis.measurements.boundary.score,
          coherence       |-> analysis.measurements.coherence.coherence,
          resonance       |-> analysis.measurements.resonance.strength,
          order_parameter |-> analysis.measurements.phase.order_parameter]]

\* a variant that appends the event twice
Mutant_log_emergence_event(events, analysis) ==
    Append(Append(events, EmergenceEvent(analysis)), EmergenceEvent(analysis))

\* self.resonance_events.append(event)   (line 282)
_log_emergence_event(events, analysis) ==
    Append(events, EmergenceEvent(analysis))

\* a variant that logs every observation
MutantLogIfDetected(events, analysis) ==
    _log_emergence_event(events, analysis)

\* lines 116-117
LogIfDetected(events, analysis) ==
    IF analysis.emergence_pattern_detected
    THEN _log_emergence_event(events, analysis)
    ELSE events

analyze_emergence_patterns ==
    /\ Len(pattern_observations) < MaxObservations
    /\ \E turn \in Conversation, conversation_turn \in TurnIndices :
           LET analysis_report ==
                   AnalysisReport(pattern_observations, turn[1], turn[2],
                                  conversation_turn, now)
           IN  /\ pattern_observations' =
                      Append(pattern_observations, analysis_report)
               /\ resonance_events' =
                      LogIfDetected(resonance_events, analysis_report)
               /\ returned' = [op    |-> "analyze_emergence_patterns",
                               value |-> analysis_report]
    /\ basis' = Append(basis, Len(pattern_observations))
    /\ now' = now + 1
    /\ raised' = "none"
    /\ UNCHANGED <<call, integrated_vars>>
    /\ UNCHANGED <<pending, serialized>>

(***************************************************************************)
(* generate_research_report, _generate_findings, export_research_data.     *)
(***************************************************************************)
\* f"{x:.3f}" of x >= 0: the number of thousandths, ties to even
Format3f(x) ==
    LET k == (1000 * x[1]) \div x[2]
        r == 1000 * x[1] - k * x[2]
    IN  [thousandths |->
             IF 2 * r > x[2] THEN k + 1
             ELSE IF 2 * r < x[2] THEN k
             ELSE IF k % 2 = 0 THEN k ELSE k + 1]

\* np.mean of a non-empty list of scores
Mean(xs) == RDivInt(RSum(xs), Len(xs))

CountWhere(seq, P(_)) == Len(SelectSeq(seq, P))

IsNearCritical(obs) == obs.measurements.phase.near_critical
HasMarker(obs) == obs.contains_4577_marker

InsufficientData == <<[finding |-> "Insufficient data for findings"]>>

\* `findings if findings else [...]`   (line 340)
FindingsOrDefault(findings) ==
    IF findings # <<>> THEN findings ELSE InsufficientData

_generate_findings(history, events) ==
    LET avg_boundary ==
            Mean([i \in 1..Len(events) |-> events[i].measurements.boundary])
        phase_transitions == CountWhere(history, IsNearCritical)
        findings ==
            IF events # <<>>
            THEN <<[finding |-> "average boundary transformation score",
                    value   |-> Format3f(avg_boundary)]>>
                 \o (IF phase_transitions > 0
                     THEN <<[finding |-> "near-critical phase transitions",
                             count   |-> phase_transitions]>>
                     ELSE <<>>)
            ELSE <<>>
    IN  FindingsOrDefault(findings)

\* the dict built by lines 299-302
PatternDistribution(history) ==
    [p \in {history[i].pattern_signature : i \in 1..Len(history)} |->
        Cardinality({i \in 1..Len(history) : history[i].pattern_signature = p})]

NoObservationsReport == [status |-> "No observations collected"]

generate_research_report(history, events) ==
    LET total_observations == Len(history)
        events_count       == Len(events)   \* the local emergence_events
    IN  IF history = <<>>
        THEN NoObservationsReport
        ELSE [metadata |-> [framework   |-> "Claude Emergence Pattern Detection",
                            version     |-> "1.0",
                            author      |-> "Hillary Danan",
                            methodology |-> "Multi-metric emergence pattern analysis"],
              summary |->
                  [total_observations   |-> total_observations,
                   emergence_events     |-> events_count,
                   emergence_rate       |->
                       IF total_observations > 0
                       THEN Rat(events_count, total_observations)
                       ELSE Rat(0, 1),
                   pattern_distribution |-> PatternDistribution(history),
                   markers_4577         |-> CountWhere(history, HasMarker)],
              key_findings |-> _generate_findings(history, events),
              raw_events   |-> events]

GenerateReport ==
    /\ returned' = [op    |-> "generate_research_report",
                    value |-> generate_research_report(pattern_observations,
                                                       resonance_events)]
    /\ raised' = "none"
    /\ UNCHANGED <<pattern_observations, resonance_events, now, call,
                   integrated_vars>>
    /\ UNCHANGED concurrent_vars

\* report['summary'][...] after the file is written (lines 350-351)
SummaryLookup(report) ==
    IF "summary" \in DOMAIN report THEN "none" ELSE "KeyError"

\* open(filepath, 'w') may fail; then nothing is written.  `written` is
\* what json.dump put in the file during this call.
export_research_data ==
    \E io_ok \in BOOLEAN :
        LET report == generate_research_report(pattern_observations,
                                               resonance_events)
        IN  /\ returned' = [op      |-> "export_research_data",
                            written |-> IF io_ok THEN report ELSE NoFile]
            /\ raised' = IF io_ok THEN SummaryLookup(report) ELSE "OSError"
            /\ UNCHANGED <<pattern_observations, resonance_events, now, call,
                   integrated_vars>>
            /\ UNCHANGED concurrent_vars

(***************************************************************************)
(* The detector: EmergencePatternDetector() and its calls.                 *)
(***************************************************************************)
DetectorInit ==
    /\ pattern_observations = <<>>
    /\ resonance_events = <<>>
    /\ now = 1
    /\ returned = None
    /\ raised = "none"

NoHandle == [analyzer |-> "None"]

\* before tool_integrator is imported
IntegratedInit ==
    /\ stage = "unloaded"
    /\ available = [BIND |-> FALSE, TIDE |-> FALSE, pattern |-> FALSE,
                    overflow |-> FALSE, trust |-> FALSE]
    /\ tools_status = [tool \in {} |-> ""]
    /\ tide = NoHandle
    /\ overflow = NoHandle
    /\ observations = <<>>
    /\ emergence_events = <<>>

Callers == {1, 2}
NoCall == [at |-> "idle"]

\* no caller is inside a call
CallersInit ==
    /\ pending = [t \in Callers |-> NoCall]
    /\ basis = <<>>

Init ==
    /\ DetectorInit
    /\ call = Idle
    /\ IntegratedInit
    /\ CallersInit
    /\ serialized = TRUE

Next ==
    \/ analyze_emergence_patterns
    \/ GenerateReport
    \/ export_research_data

Spec == Init /\ [][Next]_vars

(***************************************************************************)
(* One call of a metric on a freshly constructed detector, for every       *)
(* prompt and response made of a few pieces of text.                       *)
(***************************************************************************)
MaxPromptLen == 3
MaxResponseLen == 4
MaxKeywordLen == 2

PromptAlphabet == {cA, cUpperB, cSpace}
ResponseAlphabet == {cA, cB, cSpace, cDot}
KeywordAlphabet == {cTheory, cWould, cSpace}

Prompts == TextsOver(PromptAlphabet, MaxPromptLen)
Responses == TextsOver(ResponseAlphabet, MaxResponseLen)
                 \cup TextsOver(KeywordAlphabet, MaxKeywordLen)

CallBoundary ==
    /\ call = Idle
    /\ \E prompt \in Prompts, response \in Responses :
           call' = [fn       |-> "_measure_boundary_transformation",
                    prompt   |-> prompt,
                    response |-> response,
                    result   |-> _measure_boundary_transformation(prompt, response)]
    /\ UNCHANGED <<detector_vars, integrated_vars>>
    /\ UNCHANGED concurrent_vars

CallCoherence ==
    /\ call = Idle
    /\ \E prompt \in Prompts, response \in Responses :
           call' = [fn       |-> "_map_coherence_landscape",
                    prompt   |-> prompt,
                    response |-> response,
                    result   |-> _map_coherence_landscape(pattern_observations,
                                                          prompt, response)]
    /\ UNCHANGED <<detector_vars, integrated_vars>>
    /\ UNCHANGED concurrent_vars

CallResonance ==
    /\ call = Idle
    /\ \E response \in Responses :
           call' = [fn       |-> "_detect_resonance_patterns",
                    response |-> response,
                    result   |-> _detect_resonance_patterns(response)]
    /\ UNCHANGED <<detector_vars, integrated_vars>>
    /\ UNCHANGED concurrent_vars

CallSignature ==
    /\ call = Idle
    /\ \E response \in Responses :
           call' = [fn       |-> "_generate_pattern_signature",
                    response |-> response,
                    result   |-> _generate_pattern_signature(response)]
    /\ UNCHANGED <<detector_vars, integrated_vars>>
    /\ UNCHANGED concurrent_vars

CallsNext ==
    \/ CallBoundary
    \/ CallCoherence
    \/ CallResonance
    \/ CallSignature

CallsSpec == Init /\ [][CallsNext]_vars

(***************************************************************************)
(* Properties of the metrics (CallsSpec).                                  *)
(***************************************************************************)
Zero == Rat(0, 1)
One == Rat(1, 1)
Half == Rat(1, 2)

InUnitInterval(x) == RLe(Zero, x) /\ RLe(x, One)

\* the text has at least one token: some character is not whitespace
HasTokens(text) == \E i \in 1..Len(text) : text[i] \notin Whitespace

CalledBoundary == call.fn = "_measure_boundary_transformation"
CalledCoherence == call.fn = "_map_coherence_landscape"
CalledResonance == call.fn = "_detect_resonance_patterns"
CalledSignature == call.fn = "_generate_pattern_signature"

\* C5 as stated: 0 <= score <= 1, and the boundary score is 0 if and only
\* if the response has zero tokens.
C5_ScoreZeroIffNoTokens ==
    CalledBoundary =>
        /\ InUnitInterval(call.result.score)
        /\ (call.result.score = Zero) <=> ~HasTokens(call.response)

\* C5 amended: 0 <= score <= 1, and the boundary score is 0 if and only if
\* every token of the response is also a token of the prompt; a response
\* with zero tokens is the case that also gives type "null".
C5_ScoreZeroIffNothingNew ==
    CalledBoundary =>
        /\ InUnitInterval(call.result.score)
        /\ (call.result.score = Zero)
               <=> (TokenSet(call.response) \subseteq TokenSet(call.prompt))
        /\ ~HasTokens(call.response)
               => (call.result.score = Zero /\ call.result.type = "null")
        /\ HasTokens(call.response) => call.result.type # "null"

\* a response with tokens, all of them in the prompt, scored 0
C5_Witness ==
    /\ CalledBoundary
    /\ HasTokens(call.response)
    /\ call.result.score = Zero
    /\ call.result.type = "continuous"

\* C6 as stated: 0 <= coherence <= 1, and coherence is 0.5 if and only if
\* the prompt token set is empty.
C6_HalfIffEmptyPrompt ==
    CalledCoherence =>
        /\ InUnitInterval(call.result.coherence)
        /\ (call.result.coherence = Half) <=> ~HasTokens(call.prompt)

\* C6 amended: 0 <= coherence <= 1; coherence is 0.5 whenever the prompt
\* token set is empty, and with a non-empty prompt token set it is
\* shared / |prompt tokens|, which is 0.5 exactly when half of the prompt's
\* tokens occur in the response.
C6_HalfWhenEmptyPrompt ==
    CalledCoherence =>
        LET P == TokenSet(call.prompt)
            R == TokenSet(call.response)
        IN  /\ InUnitInterval(call.result.coherence)
            /\ ~HasTokens(call.prompt) => call.result.coherence = Half
            /\ HasTokens(call.prompt) =>
                   /\ call.result.coherence[1] * Cardinality(P)
                          = Cardinality(P \cap R) * call.result.coherence[2]
                   /\ (call.result.coherence = Half)
                          <=> (2 * Cardinality(P \cap R) = Cardinality(P))

\* a prompt of two tokens, one of them in the response: coherence 0.5
C6_Witness ==
    /\ CalledCoherence
    /\ Cardinality(TokenSet(call.prompt)) = 2
    /\ call.result.coherence = Half

\* the sentences that are left after splitting on "." and discarding the
\* empty and whitespace-only ones: one per first non-blank character
NonEmptySentences(text) ==
    LET Blank == Whitespace \cup {"."}
    IN  Cardinality({i \in 1..Len(text) :
            /\ text[i] \notin Blank
            /\ \A j \in 1..(i - 1) :
                   text[j] \notin Blank
                       => \E k \in (j + 1)..(i - 1) : text[k] = "."})

\* C7 as stated: strength 0.0 and type "none" whenever the response has
\* fewer than 2 non-empty sentences, otherwise 0 < strength <= 1.
C7_NoResonanceBelowTwoSentences ==
    CalledResonance =>
        IF NonEmptySentences(call.response) < 2
        THEN /\ call.result.strength = ZeroStrength
             /\ call.result.type = "none"
        ELSE /\ StrengthPositive(call.result.strength)
             /\ StrengthLeOne(call.result.strength)

\* C8: the signature is given by the table: abstract and future "AAFC",
\* not abstract "CCDR" (with or without future), abstract and not future
\* "ABFC".
C8_SignatureTable ==
    CalledSignature =>
        LET abstract == \E w \in AbstractWords : Contains(Lower(call.response), w)
            future   == \E w \in FutureWords : Contains(Lower(call.response), w)
        IN  call.result = IF ~abstract THEN "CCDR"
                          ELSE IF future THEN "AAFC" ELSE "ABFC"

\* code AP: an abstract word and no future word, mapped to "ABFC"
C8_Witness ==
    /\ CalledSignature
    /\ Contains(Lower(call.response), <<"t","h","e","o","r","y">>)
    /\ ~Contains(call.response, cWould)
    /\ call.result = "ABFC"

(***************************************************************************)
(* Properties of the detector (Spec).                                      *)
(***************************************************************************)
Observations == 1..Len(pattern_observations)

BoolToInt(b) == IF b THEN 1 ELSE 0

\* how many of the four indicator conditions hold of the stored measurements
IndicatorCount(obs) ==
    BoolToInt(RGt(obs.measurements.boundary.score, Rat(7, 10)))
      + BoolToInt(RGt(obs.measurements.coherence.delta, Rat(15, 100)))
      + BoolToInt(StrengthGt(obs.measurements.resonance.strength, Rat(8, 10)))
      + BoolToInt(obs.measurements.phase.near_critical)

\* C1: every observation is detected if and only if at least 3 of its 4
\* indicators (boundary score > 0.7, coherence delta > 0.15, resonance
\* strength > 0.8, phase near_critical) are true, and the stored indicator
\* booleans are these four conditions.
C1_DetectedIffThreeOfFour ==
    \A i \in Observations :
        LET obs == pattern_observations[i]
            ind == obs.emergence_indicators
        IN  /\ ind.boundary_transformation
                   = RGt(obs.measurements.boundary.score, Rat(7, 10))
            /\ ind.coherence_shift
                   = RGt(obs.measurements.coherence.delta, Rat(15, 100))
            /\ ind.resonance_detected
                   = StrengthGt(obs.measurements.resonance.strength, Rat(8, 10))
            /\ ind.phase_transition = obs.measurements.phase.near_critical
            /\ obs.emergence_pattern_detected <=> (IndicatorCount(obs) >= 3)

\* one history with an observation of 2 true indicators (not detected), one
\* of 3 and one of 4 (both detected)
C1_Witness ==
    /\ \E i \in Observations :
           /\ IndicatorCount(pattern_observations[i]) = 2
           /\ ~pattern_observations[i].emergence_pattern_detected
    /\ \E i \in Observations :
           /\ IndicatorCount(pattern_observations[i]) = 3
           /\ pattern_observations[i].emergence_pattern_detected
    /\ \E i \in Observations :
           /\ IndicatorCount(pattern_observations[i]) = 4
           /\ pattern_observations[i].emergence_pattern_detected

\* observations with no true indicator and with exactly one, not detected
C1_LowCountsReached ==
    /\ \E i \in Observations :
           /\ IndicatorCount(pattern_observations[i]) = 0
           /\ ~pattern_observations[i].emergence_pattern_detected
    /\ \E i \in Observations :
           /\ IndicatorCount(pattern_observations[i]) = 1
           /\ ~pattern_observations[i].emergence_pattern_detected

IsPrefix(s, t) == Len(s) <= Len(t) /\ \A i \in 1..Len(s) : s[i] = t[i]

IsDetected(obs) == obs.emergence_pattern_detected

\* the reduced snapshot of an observation
Snapshot(obs) ==
    [timestamp |-> obs.timestamp,
     turn      |-> obs.conversation_turn,
     pattern   |-> obs.pattern_signature,
     measurements |->
         [boundary        |-> obs.measurements.boundary.score,
          coherence       |-> obs.measurements.coherence.coherence,
          resonance       |-> obs.measurements.resonance.strength,
          order_parameter |-> obs.measurements.phase.order_parameter]]

\* the event log holds, in order, the snapshot of each detected observation
EventLogMatchesHistory ==
    LET detected == SelectSeq(pattern_observations, IsDetected)
    IN  resonance_events = [i \in 1..Len(detected) |-> Snapshot(detected[i])]

\* a step keeps every entry of the history and of the event log
AppendOnly ==
    /\ IsPrefix(pattern_observations, pattern_observations')
    /\ IsPrefix(resonance_events, resonance_events')

\* C2: the event log holds, in processing order, exactly one reduced
\* snapshot for each detected observation of the history and none for the
\* others, and no call changes or removes an entry of the history or of
\* the event log.
C2_EventLogAppendOnly ==
    /\ []EventLogMatchesHistory
    /\ [][AppendOnly]_vars

\* a detected observation, then one that is not, then a detected one
C2_Witness ==
    /\ Len(pattern_observations) = 3
    /\ pattern_observations[1].emergence_pattern_detected
    /\ ~pattern_observations[2].emergence_pattern_detected
    /\ pattern_observations[3].emergence_pattern_detected
    /\ Len(resonance_events) = 2
    /\ resonance_events[2].timestamp = pattern_observations[3].timestamp

Coherence(i) == pattern_observations[i].measurements.coherence.coherence
Delta(i) == pattern_observations[i].measurements.coherence.delta

\* C3 as stated: the delta of observation i is |coherence_i -
\* coherence_(i-1)|, and the delta is 0.0 for the first observation and for
\* no other.
C3_DeltaZeroOnlyFirst ==
    \A i \in Observations :
        /\ i > 1 => Delta(i) = RAbs(RSub(Coherence(i), Coherence(i - 1)))
        /\ (Delta(i) = Zero) <=> (i = 1)

\* C3 amended: the delta of the first observation is 0.0, and the delta of
\* every later observation i is |coherence_i - coherence_(i-1)| of the
\* observation just before it in insertion order (0.0 when the two
\* coherence values are equal).
C3_DeltaAgainstPredecessor ==
    \A i \in Observations :
        /\ i = 1 => Delta(i) = Zero
        /\ i > 1 => Delta(i) = RAbs(RSub(Coherence(i), Coherence(i - 1)))

\* turn indices out of order, a second observation with a delta that is
\* not 0.0, and a third whose delta is 0.0 although its coherence differs
\* from that of the first observation
C3_Witness ==
    /\ Len(pattern_observations) = 3
    /\ pattern_observations[1].conversation_turn = 2
    /\ pattern_observations[2].conversation_turn = 1
    /\ Delta(2) # Zero
    /\ Delta(3) = Zero
    /\ Delta(3) # RAbs(RSub(Coherence(3), Coherence(1)))

ReturnedReport == returned.op = "generate_research_report"
ReturnedExport == returned.op = "export_research_data"

\* C4: the report gives emergence_rate = events / observations on a
\* non-empty history and 0 on an empty one, and on an empty history the
\* report and the export complete without raising and carry the summary.
C4_ReportOnEveryHistory ==
    /\ ReturnedReport =>
           /\ "summary" \in DOMAIN returned.value
           /\ returned.value.summary.emergence_rate
                  = IF Len(pattern_observations) > 0
                    THEN Rat(Len(resonance_events), Len(pattern_observations))
                    ELSE Zero
    /\ (ReturnedExport /\ raised # "OSError") =>
           /\ raised = "none"
           /\ "summary" \in DOMAIN returned.written

\* the part of C4 about a non-empty history
C4_RateOnNonEmptyHistory ==
    (ReturnedReport /\ pattern_observations # <<>>) =>
        /\ "summary" \in DOMAIN returned.value
        /\ returned.value.summary.emergence_rate
               = Rat(Len(resonance_events), Len(pattern_observations))
        /\ returned.value.summary.total_observations = Len(pattern_observations)
        /\ returned.value.summary.emergence_events = Len(resonance_events)

\* the findings the claim describes
ExpectedFindings ==
    LET near == {i \in Observations :
                    pattern_observations[i].measurements.phase.near_critical}
        scores == [i \in 1..Len(resonance_events) |->
                      resonance_events[i].measurements.boundary]
    IN  IF resonance_events # <<>>
        THEN <<[finding |-> "average boundary transformation score",
                value   |-> Format3f(RDivInt(RSum(scores), Len(scores)))]>>
             \o (IF near # {}
                 THEN <<[finding |-> "near-critical phase transitions",
                         count   |-> Cardinality(near)]>>
                 ELSE <<>>)
        ELSE <<[finding |-> "Insufficient data for findings"]>>

\* C9: for every history and event log the report's findings are the
\* average boundary score of the events, followed by the count of
\* near-critical observations if there is one, when the event log is
\* non-empty, and the single "insufficient data" finding when it is empty.
C9_ReportFindings ==
    ReturnedReport =>
        /\ "key_findings" \in DOMAIN returned.value
        /\ returned.value.key_findings = ExpectedFindings

\* the part of C9 about a non-empty history
C9_FindingsOnNonEmptyHistory ==
    (ReturnedReport /\ pattern_observations # <<>>) =>
        /\ "key_findings" \in DOMAIN returned.value
        /\ returned.value.key_findings = ExpectedFindings

(***************************************************************************)
(* tool_integrator: the import-time probes, IntegratedAnalyzer and         *)
(* IntegratedEmergenceDetector.                                            *)
(***************************************************************************)
TideHandle == [analyzer |-> "TIDEAnalyzer"]
OverflowHandle == [analyzer |-> "ConcreteOverflowDetector"]

cAbstract == <<"a","b","s","t","r","a","c","t">>
cConcrete == <<"c","o","n","c","r","e","t","e">>
cPattern == <<"p","a","t","t","e","r","n">>
cSpecific == <<"s","p","e","c","i","f","i","c">>
cEmergence == <<"e","m","e","r","g","e","n","c","e">>
cUpperEmergence == <<"E","m","e","r","g","e","n","c","e">>
cSevenWords == <<"a"," ","b"," ","c"," ","d"," ","e"," ","f"," ","g">>
Filler(n) == [i \in 1..n |-> "x"]

\* the (prompt, response) pairs given to analyze_conversation.  No pair puts
\* the exact mean of the three scores on the threshold 0.7, where the
\* rounding of the float sum would decide the comparison.
IntegratedConversation ==
    { \* "" / 100 characters
      <<<<>>, Filler(100)>>,
      \* "emergence" / "Emergence"
      <<cEmergence, cUpperEmergence>>,
      \* "a b c d e f g" / "a b c d e f g x...x <4577>"   (over 100 characters)
      <<cSevenWords,
        Flatten(<<cSevenWords, cSpace, Filler(101), cSpace, Marker4577>>)>>,
      \* "a" / "x...x abstract <4577>"
      <<cA, Flatten(<<Filler(101), cSpace, cAbstract, cSpace, Marker4577>>)>>,
      \* "a" / "x...x concrete <4577>"
      <<cA, Flatten(<<Filler(101), cSpace, cConcrete, cSpace, Marker4577>>)>> }

\* lines 28-58: each import either succeeds or raises, and is caught
ImportToolIntegrator ==
    /\ stage = "unloaded"
    /\ \E tide_import \in BOOLEAN, pattern_import \in BOOLEAN,
          has_class \in BOOLEAN, overflow_import \in BOOLEAN :
           /\ available' = [BIND     |-> FALSE,
                            TIDE     |-> tide_import,
                            pattern  |-> pattern_import,
                            overflow |-> overflow_import,
                            trust    |-> FALSE]
           /\ tools_status' =
                  [BIND     |-> "unavailable (has import bug)",
                   TIDE     |-> IF tide_import THEN "ok" ELSE "unavailable",
                   pattern  |-> IF ~pattern_import THEN "unavailable"
                                ELSE IF has_class THEN "ok"
                                ELSE "ok (module loaded)",
                   overflow |-> IF overflow_import THEN "ok" ELSE "unavailable",
                   trust    |-> "unavailable (no utils found)"]
    /\ stage' = "imported"
    /\ UNCHANGED <<tide, overflow, observations, emergence_events,
                   detector_vars, call>>
    /\ UNCHANGED concurrent_vars

\* IntegratedEmergenceDetector.__init__ and IntegratedAnalyzer.__init__: an
\* analyzer's constructor either succeeds or raises, and is caught
\* a variant without the try/except around the analyzers' constructors: an
\* analyzer that fails to initialize aborts the construction
MutantConstructWith(tide_init, overflow_init) ==
    /\ stage = "imported"
    /\ available.TIDE => tide_init
    /\ available.overflow => overflow_init
    /\ tide' = IF available.TIDE THEN TideHandle ELSE NoHandle
    /\ overflow' = IF available.overflow THEN OverflowHandle ELSE NoHandle
    /\ observations' = <<>>
    /\ emergence_events' = <<>>
    /\ stage' = "ready"
    /\ UNCHANGED <<available, tools_status, detector_vars, call>>
    /\ UNCHANGED concurrent_vars

\* the construction when TIDEAnalyzer({}) and ConcreteOverflowDetector()
\* succeed (TRUE) or raise (FALSE); a constructor is only called when its
\* import succeeded
ConstructWith(tide_init, overflow_init) ==
    /\ stage = "imported"
    /\ tide' = IF available.TIDE /\ tide_init
               THEN TideHandle ELSE NoHandle
    /\ overflow' = IF available.overflow /\ overflow_init
                   THEN OverflowHandle ELSE NoHandle
    /\ observations' = <<>>
    /\ emergence_events' = <<>>
    /\ stage' = "ready"
    /\ UNCHANGED <<available, tools_status, detector_vars, call>>
    /\ UNCHANGED concurrent_vars

Construct ==
    \E tide_init \in BOOLEAN, overflow_init \in BOOLEAN :
        ConstructWith(tide_init, overflow_init)

\* lines 103-106
BoundaryFallback(response) ==
    [score |-> IF Len(response) > 100 THEN Rat(8, 10) ELSE Rat(5, 10),
     type  |-> IF Contains(Lower(response), cEmergence)
               THEN "transformational" ELSE "continuous"]

\* lines 117-119
CoherenceFallback(prompt, response) ==
    LET words_shared == Cardinality(TokenSet(prompt) \cap TokenSet(response))
    IN  [coherence |-> RMin(Rat(words_shared, 10), Rat(1, 1))]

\* a variant that computes the fallback whether or not TIDE initialized
MutantIntegratedCoherence(tide_handle, fallback) == fallback

\* lines 109-119
IntegratedCoherence(tide_handle, fallback) ==
    IF tide_handle # NoHandle
    THEN [coherence |-> Rat(8, 10)]
    ELSE fallback

\* lines 122-128
PatternDetection(response) ==
    IF Contains(Lower(response), cAbstract) \/ Contains(Lower(response), cPattern)
    THEN "AAFC"
    ELSE IF Contains(Lower(response), cConcrete)
              \/ Contains(Lower(response), cSpecific)
         THEN "CCDR"
         ELSE "ABFC"

\* lines 139-141
OverflowFallback(response) ==
    LET abstract_words == {cAbstract, cConcept, <<"t","h","e","o","r","y">>,
                           cPattern}
        has_abstract   == \E word \in abstract_words :
                              Contains(Lower(response), word)
    IN  [overflow_detected |-> has_abstract]

\* lines 131-141
IntegratedOverflow(overflow_handle, fallback) ==
    IF overflow_handle # NoHandle
    THEN [overflow_detected |-> FALSE]
    ELSE fallback

\* lines 144-146
TrustFallback(response) ==
    [trust_score |-> IF Contains(response, Marker4577)
                     THEN Rat(7, 10) ELSE Rat(6, 10)]

\* a variant that leaves the trust score out of the mean
MutantMetaScore(boundary, coherence, trust) ==
    LET scores == <<boundary.score, coherence.coherence>>
    IN  RDivInt(RSum(scores), Len(scores))

\* lines 149-154: sum(scores) / len(scores)
MetaScore(boundary, coherence, trust) ==
    LET scores == <<boundary.score, coherence.coherence, trust.trust_score>>
    IN  RDivInt(RSum(scores), Len(scores))

\* the history-independent parts, evaluated once per pair
IntegratedBoundary ==
    [t \in IntegratedConversation |-> BoundaryFallback(t[2])]
IntegratedCoherenceFallback ==
    [t \in IntegratedConversation |-> CoherenceFallback(t[1], t[2])]
IntegratedPattern ==
    [t \in IntegratedConversation |-> PatternDetection(t[2])]
IntegratedOverflowFallback ==
    [t \in IntegratedConversation |-> OverflowFallback(t[2])]
IntegratedTrust ==
    [t \in IntegratedConversation |-> TrustFallback(t[2])]
IntegratedMarker ==
    [t \in IntegratedConversation |-> Contains(t[2], Marker4577)]

integrated_analysis(tide_handle, overflow_handle, prompt, response, turn) ==
    LET pair      == <<prompt, response>>
        boundary  == IntegratedBoundary[pair]
        coherence == IntegratedCoherence(tide_handle,
                                         IntegratedCoherenceFallback[pair])
        trust     == IntegratedTrust[pair]
    IN  [boundary   |-> boundary,
         coherence  |-> coherence,
         pattern    |-> IntegratedPattern[pair],
         overflow   |-> IntegratedOverflow(overflow_handle,
                                           IntegratedOverflowFallback[pair]),
         trust      |-> trust,
         meta_score |-> MetaScore(boundary, coherence, trust)]

\* is_emergence = emergence_score > 0.7   (line 28)
IsEmergence(emergence_score) == RGt(emergence_score, Rat(7, 10))

\* lines 45-46
AppendIfEmergence(events, report) ==
    IF report.emergence_detected THEN Append(events, report) ELSE events

analyze_conversation ==
    /\ stage = "ready"
    /\ Len(observations) < MaxObservations
    /\ \E pair \in IntegratedConversation, turn \in TurnIndices :
           LET analysis == integrated_analysis(tide, overflow,
                                               pair[1], pair[2], turn)
               emergence_score == analysis.meta_score
               report == [timestamp           |-> IsoFormat(now),
                          turn                |-> turn,
                          integrated_analysis |-> analysis,
                          emergence_score     |-> emergence_score,
                          emergence_detected  |-> IsEmergence(emergence_score),
                          has_4577            |-> IntegratedMarker[pair]]
           IN  /\ observations' = Append(observations, report)
               /\ emergence_events' = AppendIfEmergence(emergence_events, report)
               /\ returned' = [op |-> "analyze_conversation", value |-> report]
               /\ call' = [fn       |-> "integrated_analysis",
                           prompt   |-> pair[1],
                           response |-> pair[2],
                           turn     |-> turn,
                           result   |-> analysis]
    /\ now' = now + 1
    /\ raised' = "none"
    /\ UNCHANGED <<stage, available, tools_status, tide, overflow,
                   pattern_observations, resonance_events>>
    /\ UNCHANGED concurrent_vars

IntegratedNext ==
    \/ ImportToolIntegrator
    \/ Construct
    \/ analyze_conversation

IntegratedSpec == Init /\ [][IntegratedNext]_vars

(***************************************************************************)
(* Properties of the integrated detector (IntegratedSpec).                 *)
(***************************************************************************)
IntegratedObservations == 1..Len(observations)

ScoresOf(report) ==
    <<report.integrated_analysis.boundary.score,
      report.integrated_analysis.coherence.coherence,
      report.integrated_analysis.trust.trust_score>>

ReportDetected(report) == report.emergence_detected

\* C10: meta_score is the mean of the boundary score, the coherence value
\* and the trust value, whatever the overflow and pattern results are;
\* emergence_detected is reported exactly when meta_score > 0.7, and
\* emergence_events holds exactly the reports for which it is.
C10_MetaScoreAndDecision ==
    /\ \A i \in IntegratedObservations :
           LET report == observations[i]
               scores == ScoresOf(report)
           IN  /\ 3 * report.integrated_analysis.meta_score[1]
                        * scores[1][2] * scores[2][2] * scores[3][2]
                      = report.integrated_analysis.meta_score[2]
                        * (scores[1][1] * scores[2][2] * scores[3][2]
                           + scores[2][1] * scores[1][2] * scores[3][2]
                           + scores[3][1] * scores[1][2] * scores[2][2])
               /\ report.emergence_score = report.integrated_analysis.meta_score
               /\ report.emergence_detected
                      <=> RGt(report.integrated_analysis.meta_score, Rat(7, 10))
    /\ \A i, j \in IntegratedObservations :
           ScoresOf(observations[i]) = ScoresOf(observations[j])
               => observations[i].integrated_analysis.meta_score
                      = observations[j].integrated_analysis.meta_score
    /\ emergence_events = SelectSeq(observations, ReportDetected)

\* two detected reports with the same three scores and different overflow
\* and pattern results, and a report that is not detected
C10_Witness ==
    /\ Len(observations) = 3
    /\ Len(emergence_events) = 2
    /\ \E i, j \in IntegratedObservations :
           /\ observations[i].emergence_detected
           /\ observations[j].emergence_detected
           /\ ScoresOf(observations[i]) = ScoresOf(observations[j])
           /\ observations[i].integrated_analysis.overflow
                  # observations[j].integrated_analysis.overflow
           /\ observations[i].integrated_analysis.pattern
                  # observations[j].integrated_analysis.pattern
    /\ \E k \in IntegratedObservations : ~observations[k].emergence_detected

(***************************************************************************)
(* integrated_analysis against the handles the integrator holds.           *)
(***************************************************************************)
AnalysisCalled == call.fn = "integrated_analysis"

\* what an integrator holding no analyzer returns for the same arguments
WithoutAnalyzers ==
    integrated_analysis(NoHandle, NoHandle,
                        call.prompt, call.response, call.turn)

\* |prompt tokens & response tokens| of each pair, evaluated once per pair
SharedTokens ==
    [t \in IntegratedConversation |->
        Cardinality(TokenSet(t[1]) \cap TokenSet(t[2]))]

Capabilities == {"BIND", "TIDE", "pattern", "overflow", "trust"}

\* every probe ran and left its status, each analyzer's constructor may
\* succeed or fail without stopping the construction, a handle is held only
\* for a capability probed as available, and every analysis made carries a
\* meta_score
ProbesAndConstructionComplete ==
    /\ stage = "imported" =>
           /\ DOMAIN tools_status = Capabilities
           /\ \A tide_init \in BOOLEAN, overflow_init \in BOOLEAN :
                  ENABLED ConstructWith(tide_init, overflow_init)
    /\ stage = "ready" =>
           /\ DOMAIN tools_status = Capabilities
           /\ tide # NoHandle => available.TIDE
           /\ overflow # NoHandle => available.overflow
           /\ \A i \in IntegratedObservations :
                  /\ "meta_score" \in DOMAIN observations[i].integrated_analysis
                  /\ observations[i].integrated_analysis.meta_score
                         = MetaScore(observations[i].integrated_analysis.boundary,
                                     observations[i].integrated_analysis.coherence,
                                     observations[i].integrated_analysis.trust)

\* once constructed, no step probes again or changes a handle
NoReprobe ==
    stage = "ready" =>
        /\ stage' = "ready"
        /\ available' = available
        /\ tools_status' = tools_status
        /\ tide' = tide
        /\ overflow' = overflow

\* C12: for every combination of success and failure of the five probes and
\* of the analyzers' initializations the construction completes, one
\* capability's failure does not prevent the probing of the others, every
\* later integrated_analysis returns a meta_score, and a capability that
\* was unavailable at construction stays unavailable for the life of the
\* instance: no call probes again or changes the handles.
C12_ConstructionNeverBlocked ==
    []ProbesAndConstructionComplete /\ [][NoReprobe]_vars

\* TIDE imported but failed to initialize, the pattern import failed, the
\* overflow detector imported and initialized, and analyses were made
C12_Witness ==
    /\ stage = "ready"
    /\ available.TIDE /\ tide = NoHandle
    /\ ~available.pattern
    /\ available.overflow /\ overflow = OverflowHandle
    /\ Len(observations) = 2

(***************************************************************************)
(* Two callers sharing one EmergencePatternDetector.  A call that is not   *)
(* serialized runs in three steps: the measurements, which read the last   *)
(* observation of the history (lines 68-110), the append to the history    *)
(* (line 113), and the event log and return (lines 116-119).  A serialized *)
(* call is analyze_emergence_patterns taken as one step.                   *)
(***************************************************************************)
\* the pairs the interleaved callers pass: coherence 0.5, 0 and 1
ConcurrentConversation ==
    { <<<<>>, <<>>>>,
      <<cA, cTheory>>,
      <<cA, Flatten(<<cA, cSpace, cB, cSpace, cC, cSpace, cD, cDot>>)>> }

InFlight == {t \in Callers : pending[t].at = "measured"}

\* lines 68-110; caller t passes its own number as conversation_turn
Measure(t) ==
    /\ ~serialized
    /\ pending[t] = NoCall
    /\ Len(pattern_observations) + Cardinality(InFlight) < MaxObservations
    /\ \E turn \in ConcurrentConversation :
           pending' = [pending EXCEPT ![t] =
               [at              |-> "measured",
                read_len        |-> Len(pattern_observations),
                analysis_report |-> AnalysisReport(pattern_observations,
                                                   turn[1], turn[2], t, now)]]
    /\ now' = now + 1
    /\ UNCHANGED <<pattern_observations, resonance_events, returned, raised,
                   call, basis, serialized, integrated_vars>>

\* a variant that puts the observation at the front of the history
MutantStore(t) ==
    /\ pending[t].at = "measured"
    /\ pattern_observations' =
           <<pending[t].analysis_report>> \o pattern_observations
    /\ basis' = <<pending[t].read_len>> \o basis
    /\ pending' = [pending EXCEPT ![t].at = "stored"]
    /\ UNCHANGED <<resonance_events, now, returned, raised, call, serialized,
                   integrated_vars>>

\* line 113
Store(t) ==
    /\ pending[t].at = "measured"
    /\ pattern_observations' =
           Append(pattern_observations, pending[t].analysis_report)
    /\ basis' = Append(basis, pending[t].read_len)
    /\ pending' = [pending EXCEPT ![t].at = "stored"]
    /\ UNCHANGED <<resonance_events, now, returned, raised, call, serialized,
                   integrated_vars>>

\* lines 116-119
Finish(t) ==
    /\ pending[t].at = "stored"
    /\ resonance_events' =
           LogIfDetected(resonance_events, pending[t].analysis_report)
    /\ returned' = [op    |-> "analyze_emergence_patterns",
                    value |-> pending[t].analysis_report]
    /\ raised' = "none"
    /\ pending' = [pending EXCEPT ![t] = NoCall]
    /\ UNCHANGED <<pattern_observations, now, call, basis, serialized,
                   integrated_vars>>

SerializedCall == serialized /\ analyze_emergence_patterns

ConcurrentInit ==
    /\ DetectorInit
    /\ call = Idle
    /\ IntegratedInit
    /\ CallersInit
    /\ serialized \in BOOLEAN

ConcurrentNext ==
    \/ SerializedCall
    \/ \E t \in Callers : Measure(t)
    \/ \E t \in Callers : Store(t)
    \/ \E t \in Callers : Finish(t)

ConcurrentSpec == ConcurrentInit /\ [][ConcurrentNext]_vars

\* the delta of observation i is the one computed against observation k
\* (against nothing when k = 0)
DeltaComputedAgainst(i, k) ==
    Delta(i) = IF k = 0 THEN Zero
               ELSE RAbs(RSub(Coherence(i), Coherence(k)))

\* C13: when two calls on one detector both read the previous observation
\* before either appends, the history holds an observation whose delta was
\* not computed against the observation immediately before it; when each
\* call's read and its appends are one step, every observation's delta is
\* computed against its immediate predecessor.
C13_SequentialProcessingNeeded ==
    /\ Len(basis) = Len(pattern_observations)
    /\ \A i \in Observations :
           /\ basis[i] < i
           /\ DeltaComputedAgainst(i, basis[i])
    /\ \A i, j \in Observations :
           (i < j /\ basis[i] = basis[j]) => basis[j] # j - 1
    /\ serialized =>
           \A i \in Observations :
               /\ basis[i] = i - 1
               /\ DeltaComputedAgainst(i, i - 1)

\* both callers measured on the empty history, both appended, and the
\* second observation's delta is not the difference to the first's
\* coherence
C13_Witness ==
    /\ ~serialized
    /\ Len(pattern_observations) = 2
    /\ basis = <<0, 0>>
    /\ ~DeltaComputedAgainst(2, 1)

(***************************************************************************)
(* The first observation, and the counts of the report (Spec).             *)
(***************************************************************************)
\* C14: for the first observation of a history the coherence_shift
\* indicator is false (its delta is 0.0), so the first observation is
\* detected if and only if boundary score > 0.7, resonance strength > 0.8
\* and phase near_critical are all true.
C14_FirstObservationNeedsAllThree ==
    pattern_observations # <<>> =>
        LET obs == pattern_observations[1]
        IN  /\ obs.measurements.coherence.delta = Zero
            /\ ~obs.emergence_indicators.coherence_shift
            /\ obs.emergence_pattern_detected
                   <=> /\ RGt(obs.measurements.boundary.score, Rat(7, 10))
                       /\ StrengthGt(obs.measurements.resonance.strength,
                                     Rat(8, 10))
                       /\ obs.measurements.phase.near_critical

\* a first observation that is detected on its three other indicators,
\* followed by one whose coherence shifted
C14_Witness ==
    /\ Len(pattern_observations) >= 2
    /\ pattern_observations[1].emergence_pattern_detected
    /\ ~pattern_observations[1].emergence_indicators.coherence_shift
    /\ pattern_observations[2].emergence_indicators.coherence_shift

KnownSignatures == {"AAFC", "CCDR", "ABFC"}

\* the sum of the counts of a pattern distribution
DistributionTotal(distribution) ==
    LET CountOf(p) == IF p \in DOMAIN distribution THEN distribution[p] ELSE 0
    IN  CountOf("AAFC") + CountOf("CCDR") + CountOf("ABFC")

\* C15: after any sequence of analyze_emergence_patterns calls the number
\* of events never exceeds the number of observations, so the reported
\* emergence_rate lies in [0, 1]; the counts in pattern_distribution sum to
\* total_observations and the marker count never exceeds it.  (The report
\* of an empty history carries no summary; the counts are those of the
\* reports that have one.)
C15_CountsWithinObservations ==
    /\ Len(resonance_events) <= Len(pattern_observations)
    /\ (ReturnedReport /\ "summary" \in DOMAIN returned.value) =>
           LET summary == returned.value.summary
           IN  /\ summary.total_observations = Len(pattern_observations)
               /\ summary.emergence_events <= summary.total_observations
               /\ InUnitInterval(summary.emergence_rate)
               /\ DOMAIN summary.pattern_distribution \subseteq KnownSignatures
               /\ DistributionTotal(summary.pattern_distribution)
                      = summary.total_observations
               /\ summary.markers_4577 >= 0
               /\ summary.markers_4577 <= summary.total_observations

\* a report over three observations of two signatures, some detected, some
\* not, some carrying the marker
C15_Witness ==
    /\ ReturnedReport
    /\ Len(pattern_observations) = 3
    /\ Len(resonance_events) \in {1, 2}
    /\ Cardinality(DOMAIN returned.value.summary.pattern_distribution) >= 2
    /\ returned.value.summary.markers_4577 \in {1, 2}

====
